---- MODULE Spec2Model ----
(***************************************************************************)
(* Model of the mCaptcha widget: the Orchestrator                          *)
(* (templates/widget/index.ts) and the compute Worker                      *)
(* (templates/widget/service-worker.ts), which exchange messages over two  *)
(* FIFO channels, and the external collaborators fetchPoWConfig and        *)
(* sendWork, which are awaited and answer later, successfully or not.      *)
(***************************************************************************)
EXTENDS Integers, Sequences, FiniteSets, TLC

\* ---- bounds of the model ------------------------------------------------
\* number of calls of solveCaptchaRunner (solve cycles) explored
MaxCycles == 2
\* salts 0..MaxSalt may be issued by the config service; salt 0 is BadSalt
MaxSalt == 1
\* tokens 1..MaxToken may be returned by the verification service
MaxToken == 1
\* progress messages the worker posts per SolveRequest, at most
MaxProgress == 1
\* the worker-only specification: SolveRequests queued when the worker starts,
\* with salts 0..MaxSaltW and difficulty factors 1..MaxDifficultyW
MaxQueue == 2
MaxSaltW == 3
MaxDifficultyW == 4

Salts == 0..MaxSalt
\* index.ts never reads difficulty_factor: one value is issued here, and the
\* worker is explored over 1..MaxDifficultyW in SpecWorker
Difficulties == {1}
Tokens == 1..MaxToken

VARIABLES
  LOCK,        \* index.ts:20   let LOCK
  config,      \* index.ts:31   let config: PoWConfig
  msgText,     \* CONST.messageText(): the status text shown
  checked,     \* CONST.btn().checked
  toWorker,    \* messages posted with worker.postMessage, not yet handled
  toMain,      \* messages posted by the worker, not yet handled by index.ts
  wstate,      \* "loading" until the worker script has run, then "running"
  cycles,      \* one entry per call of solveCaptchaRunner (history)
  dispatched,  \* every PoWConfig posted to the worker (history)
  wReceived,   \* every message the worker's onmessage has handled (history)
  wEmitted,    \* every message the worker posted from onmessage (history)
  subs,        \* one entry per call of sendWork (history and await state)
  relayed,     \* every call of sendToParent (history)
  initSeen,    \* the "init" message has been handled by index.ts (history)
  observed     \* every message worker.onmessage has handled, in order (history)

vars == <<LOCK, config, msgText, checked, toWorker, toMain, wstate, cycles,
          dispatched, wReceived, wEmitted, subs, relayed, initSeen, observed>>

\* the value of `config` before the first assignment (undefined)
NoConfig == [string |-> 0, salt |-> 0, difficulty_factor |-> 0]

\* CONST.sitekey()
Sitekey == "sitekey"

\* ---- the search primitive (./prove, imported at service-worker.ts:17) ----
\* a salt whose encoding the search primitive rejects
BadSalt == 0

\* score(salt, nonce): the opaque scoring primitive
Score(s, n) == (s * s + 6 + (1 + (s % 6)) * n) % 7

\* "score(salt, nonce) meets difficulty"
Meets(s, n, d) == Score(s, n) >= d

RECURSIVE Search(_, _, _)
Search(s, d, n) == IF Meets(s, n, d) THEN n ELSE Search(s, d, n + 1)

\* prove(config): the first satisfying nonce from 0, and its digest
prove(cfg) ==
  LET n == Search(cfg.salt, cfg.difficulty_factor, 0)
  IN  [nonce |-> n, result |-> Score(cfg.salt, n)]

\* prove throws on a malformed challenge
proveThrows(cfg) == cfg.salt = BadSalt

\* ---- Worker (service-worker.ts) -----------------------------------------
ReadyMsg == [type |-> "ready", req |-> 0, work |-> [nonce |-> 0, result |-> 0]]
InitMsg  == [type |-> "init",  req |-> 0, work |-> [nonce |-> 0, result |-> 0]]

\* service-worker.ts:35-42, progressCallback(nonce)
ProgressMsg(cfg, n) ==
  [type |-> "progress", req |-> cfg.string, work |-> [nonce |-> n, result |-> 0]]

\* the progress messages of a search that reports its first k nonces
ProgressMsgs(cfg, k) == [i \in 1..k |-> ProgressMsg(cfg, i - 1)]

\* how many progress messages a search ending at nonce n may post
ProgressCounts(n) == 0..(IF n < MaxProgress THEN n ELSE MaxProgress)

\* the result message carrying the nonce after the one found
M_ResultMsg_NextNonce(cfg, work) ==
  [type |-> "result", req |-> cfg.string,
   work |-> [nonce |-> work.nonce + 1, result |-> work.result]]

\* service-worker.ts:44-53  payload = {work}; postMessage({type:'result', payload})
\* `req` is history: the challenge string of the SolveRequest answered
ResultMsg(cfg, work) == [type |-> "result", req |-> cfg.string, work |-> work]

\* the worker script posting `ready` a second time at its end
M_WorkerStart_ReadyTwice ==
  /\ wstate = "loading"
  /\ wstate' = "running"
  /\ toMain' = toMain \o <<ReadyMsg, InitMsg, ReadyMsg>>
  /\ UNCHANGED <<LOCK, config, msgText, checked, toWorker, cycles, dispatched,
                 wReceived, wEmitted, subs, relayed, initSeen, observed>>

\* service-worker.ts:24-56, top level of the worker script
WorkerStart ==
  /\ wstate = "loading"
  /\ wstate' = "running"
  /\ toMain' = toMain \o <<ReadyMsg, InitMsg>>
  /\ UNCHANGED <<LOCK, config, msgText, checked, toWorker, cycles, dispatched,
                 wReceived, wEmitted, subs, relayed, initSeen, observed>>

\* onmessage posting the result before the progress reports of the search
M_WorkerOnMessage_ResultFirst ==
  /\ wstate = "running"
  /\ toWorker # <<>>
  /\ LET cfg == Head(toWorker) IN
       /\ toWorker' = Tail(toWorker)
       /\ wReceived' = Append(wReceived, cfg)
       /\ IF proveThrows(cfg)
            THEN UNCHANGED <<toMain, wEmitted>>
            ELSE \E k \in ProgressCounts(prove(cfg).nonce) :
                   LET out == <<ResultMsg(cfg, prove(cfg))>>
                                \o ProgressMsgs(cfg, k) IN
                     /\ toMain' = toMain \o out
                     /\ wEmitted' = wEmitted \o out
  /\ UNCHANGED <<LOCK, config, msgText, checked, wstate, cycles, dispatched,
                 subs, relayed, initSeen, observed>>

\* onmessage posting both the `res` it builds and the result
M_WorkerOnMessage_PostsTwice ==
  /\ wstate = "running"
  /\ toWorker # <<>>
  /\ LET cfg == Head(toWorker) IN
       /\ toWorker' = Tail(toWorker)
       /\ wReceived' = Append(wReceived, cfg)
       /\ IF proveThrows(cfg)
            THEN UNCHANGED <<toMain, wEmitted>>
            ELSE LET m == [type |-> "result", req |-> cfg.string,
                           work |-> prove(cfg)] IN
                 /\ toMain' = toMain \o <<m, m>>
                 /\ wEmitted' = wEmitted \o <<m, m>>
  /\ UNCHANGED <<LOCK, config, msgText, checked, wstate, cycles, dispatched,
                 subs, relayed, initSeen, observed>>

\* service-worker.ts:31-54, onmessage
WorkerOnMessage ==
  /\ wstate = "running"
  /\ toWorker # <<>>
  /\ LET cfg == Head(toWorker) IN
       /\ toWorker' = Tail(toWorker)
       /\ wReceived' = Append(wReceived, cfg)
       /\ IF proveThrows(cfg)
            THEN UNCHANGED <<toMain, wEmitted>>
            ELSE \E k \in ProgressCounts(prove(cfg).nonce) :
                   LET out == Append(ProgressMsgs(cfg, k),
                                     ResultMsg(cfg, prove(cfg))) IN
                     /\ toMain' = toMain \o out
                     /\ wEmitted' = wEmitted \o out
  /\ UNCHANGED <<LOCK, config, msgText, checked, wstate, cycles, dispatched,
                 subs, relayed, initSeen, observed>>

\* ---- Orchestrator (index.ts) --------------------------------------------
\* index.ts:33-40, solveCaptchaRunner up to the await of fetchPoWConfig
StartCycle(src) ==
  /\ LOCK' = TRUE
  /\ msgText' = "during"
  /\ cycles' = Append(cycles, [src |-> src, fetch |-> "pending", locked |-> LOCK])

\* a call of the exported solveCaptchaRunner from outside the module
Trigger ==
  /\ Len(cycles) < MaxCycles - (IF initSeen THEN 0 ELSE 1)
  /\ StartCycle("trigger")
  /\ UNCHANGED <<config, checked, toWorker, toMain, wstate, dispatched,
                 wReceived, wEmitted, subs, relayed, initSeen, observed>>

\* index.ts:40-42, fetchPoWConfig resolved
FetchOk(c) ==
  /\ c \in DOMAIN cycles
  /\ cycles[c].fetch = "pending"
  /\ \E s \in Salts, d \in Difficulties :
       LET cfg == [string |-> c, salt |-> s, difficulty_factor |-> d] IN
         /\ config' = cfg
         /\ toWorker' = Append(toWorker, cfg)
         /\ dispatched' = Append(dispatched, cfg)
  /\ cycles' = [cycles EXCEPT ![c].fetch = "ok"]
  /\ UNCHANGED <<LOCK, msgText, checked, toMain, wstate, wReceived, wEmitted,
                 subs, relayed, initSeen, observed>>

\* worker.postMessage(config) placed after the try/catch, so that it also
\* runs when the fetch failed
M_FetchFail_PostsAnyway(c) ==
  /\ c \in DOMAIN cycles
  /\ cycles[c].fetch = "pending"
  /\ msgText' = "error"
  /\ LOCK' = FALSE
  /\ cycles' = [cycles EXCEPT ![c].fetch = "fail"]
  /\ toWorker' = Append(toWorker, config)
  /\ dispatched' = Append(dispatched, config)
  /\ UNCHANGED <<config, checked, toMain, wstate, wReceived, wEmitted, subs,
                 relayed, initSeen, observed>>

\* the catch block without `LOCK = false`
M_FetchFail_KeepsLock(c) ==
  /\ c \in DOMAIN cycles
  /\ cycles[c].fetch = "pending"
  /\ msgText' = "error"
  /\ cycles' = [cycles EXCEPT ![c].fetch = "fail"]
  /\ UNCHANGED <<LOCK, config, checked, toWorker, toMain, wstate, dispatched,
                 wReceived, wEmitted, subs, relayed, initSeen, observed>>

\* index.ts:43-47, fetchPoWConfig rejected
FetchFail(c) ==
  /\ c \in DOMAIN cycles
  /\ cycles[c].fetch = "pending"
  /\ msgText' = "error"
  /\ LOCK' = FALSE
  /\ cycles' = [cycles EXCEPT ![c].fetch = "fail"]
  /\ UNCHANGED <<config, checked, toWorker, toMain, wstate, dispatched,
                 wReceived, wEmitted, subs, relayed, initSeen, observed>>

\* index.ts:58-63, the Work built for a result message
Proof(resp) == [key |-> Sitekey, string |-> config.string,
                nonce |-> resp.work.nonce, result |-> resp.work.result]

\* the result case marking the checkbox before the Proof is submitted
M_OnMessage_ChecksOnResult ==
  /\ toMain # <<>>
  /\ LET resp == Head(toMain) IN
       /\ toMain' = Tail(toMain)
       /\ observed' = Append(observed, resp)
       /\ CASE resp.type = "init" ->
                 /\ StartCycle("init")
                 /\ initSeen' = TRUE
                 /\ UNCHANGED <<subs, checked>>
            [] resp.type = "result" ->
                 /\ subs' = Append(subs, [proof |-> Proof(resp), req |-> resp.req,
                                          work |-> resp.work, state |-> "pending",
                                          token |-> 0])
                 /\ checked' = TRUE
                 /\ UNCHANGED <<LOCK, msgText, cycles, initSeen>>
            [] OTHER ->
                 UNCHANGED <<LOCK, msgText, cycles, initSeen, subs, checked>>
  /\ UNCHANGED <<config, toWorker, wstate, dispatched, wReceived,
                 wEmitted, relayed>>

\* the switch with `case "progress":` falling into the result case
M_OnMessage_ProgressAsResult ==
  /\ toMain # <<>>
  /\ LET resp == Head(toMain) IN
       /\ toMain' = Tail(toMain)
       /\ observed' = Append(observed, resp)
       /\ CASE resp.type = "init" ->
                 /\ StartCycle("init")
                 /\ initSeen' = TRUE
                 /\ UNCHANGED subs
            [] resp.type \in {"result", "progress"} ->
                 /\ subs' = Append(subs, [proof |-> Proof(resp), req |-> resp.req,
                                          work |-> resp.work, state |-> "pending",
                                          token |-> 0])
                 /\ UNCHANGED <<LOCK, msgText, cycles, initSeen>>
            [] OTHER ->
                 UNCHANGED <<LOCK, msgText, cycles, initSeen, subs>>
  /\ UNCHANGED <<config, checked, toWorker, wstate, dispatched, wReceived,
                 wEmitted, relayed>>

\* index.ts:52-66, worker.onmessage up to the await of sendWork
OnMessage ==
  /\ toMain # <<>>
  /\ LET resp == Head(toMain) IN
       /\ toMain' = Tail(toMain)
       /\ observed' = Append(observed, resp)
       /\ CASE resp.type = "init" ->
                 /\ StartCycle("init")
                 /\ initSeen' = TRUE
                 /\ UNCHANGED subs
            [] resp.type = "result" ->
                 /\ subs' = Append(subs, [proof |-> Proof(resp), req |-> resp.req,
                                          work |-> resp.work, state |-> "pending",
                                          token |-> 0])
                 /\ UNCHANGED <<LOCK, msgText, cycles, initSeen>>
            [] OTHER ->
                 UNCHANGED <<LOCK, msgText, cycles, initSeen, subs>>
  /\ UNCHANGED <<config, checked, toWorker, wstate, dispatched, wReceived,
                 wEmitted, relayed>>

\* the success path calling sendToParent twice
M_SubmitOk_RelaysTwice(s) ==
  /\ s \in DOMAIN subs
  /\ subs[s].state = "pending"
  /\ \E tok \in Tokens :
       /\ subs' = [subs EXCEPT ![s].state = "ok", ![s].token = tok]
       /\ relayed' = relayed \o <<[sub |-> s, token |-> tok],
                                  [sub |-> s, token |-> tok]>>
  /\ checked' = TRUE
  /\ msgText' = "after"
  /\ LOCK' = FALSE
  /\ UNCHANGED <<config, toWorker, toMain, wstate, cycles, dispatched,
                 wReceived, wEmitted, initSeen, observed>>

\* index.ts:66-72, sendWork resolved with a token
SubmitOk(s) ==
  /\ s \in DOMAIN subs
  /\ subs[s].state = "pending"
  /\ \E tok \in Tokens :
       /\ subs' = [subs EXCEPT ![s].state = "ok", ![s].token = tok]
       /\ relayed' = Append(relayed, [sub |-> s, token |-> tok])
  /\ checked' = TRUE
  /\ msgText' = "after"
  /\ LOCK' = FALSE
  /\ UNCHANGED <<config, toWorker, toMain, wstate, cycles, dispatched,
                 wReceived, wEmitted, initSeen, observed>>

\* a rejected sendWork swallowed, so that lines 68-72 run with no token
M_SubmitFail_FallsThrough(s) ==
  /\ s \in DOMAIN subs
  /\ subs[s].state = "pending"
  /\ subs' = [subs EXCEPT ![s].state = "fail"]
  /\ relayed' = Append(relayed, [sub |-> s, token |-> 0])
  /\ checked' = TRUE
  /\ msgText' = "after"
  /\ LOCK' = FALSE
  /\ UNCHANGED <<config, toWorker, toMain, wstate, cycles, dispatched,
                 wReceived, wEmitted, initSeen, observed>>

\* index.ts:66, sendWork rejected: the handler's promise rejects
SubmitFail(s) ==
  /\ s \in DOMAIN subs
  /\ subs[s].state = "pending"
  /\ subs' = [subs EXCEPT ![s].state = "fail"]
  /\ UNCHANGED <<LOCK, config, msgText, checked, toWorker, toMain, wstate,
                 cycles, dispatched, wReceived, wEmitted, relayed, initSeen, observed>>

\* index.ts:20-31, 50-52 and the worker not yet started
Init ==
  /\ LOCK = FALSE
  /\ config = NoConfig
  /\ msgText = "before"
  /\ checked = FALSE
  /\ toWorker = <<>>
  /\ toMain = <<>>
  /\ wstate = "loading"
  /\ cycles = <<>>
  /\ dispatched = <<>>
  /\ wReceived = <<>>
  /\ wEmitted = <<>>
  /\ subs = <<>>
  /\ relayed = <<>>
  /\ initSeen = FALSE
  /\ observed = <<>>

Next ==
  \/ WorkerStart
  \/ WorkerOnMessage
  \/ Trigger
  \/ OnMessage
  \/ \E c \in 1..MaxCycles : FetchOk(c)
  \/ \E c \in 1..MaxCycles : FetchFail(c)
  \/ \E s \in 1..MaxCycles : SubmitOk(s)
  \/ \E s \in 1..MaxCycles : SubmitFail(s)

Spec == Init /\ [][Next]_vars

\* ---- the worker alone, over a larger set of challenges -------------------
\* The state in which k solve cycles were started and their challenges
\* fetched and posted before the worker script has run.
InitWorker ==
  /\ \E k \in 1..MaxQueue :
       \E f \in [1..k -> (0..MaxSaltW) \X (1..MaxDifficultyW)] :
         LET q == [i \in 1..k |-> [string |-> i, salt |-> f[i][1],
                                   difficulty_factor |-> f[i][2]]] IN
           /\ toWorker = q
           /\ dispatched = q
           /\ config = q[k]
           /\ cycles = [i \in 1..k |-> [src |-> "trigger", fetch |-> "ok",
                                        locked |-> (i > 1)]]
  /\ LOCK = TRUE
  /\ msgText = "during"
  /\ checked = FALSE
  /\ toMain = <<>>
  /\ wstate = "loading"
  /\ wReceived = <<>>
  /\ wEmitted = <<>>
  /\ subs = <<>>
  /\ relayed = <<>>
  /\ initSeen = FALSE
  /\ observed = <<>>

NextWorker ==
  \/ WorkerStart
  \/ WorkerOnMessage

SpecWorker == InitWorker /\ [][NextWorker]_vars

TypeOK ==
  /\ LOCK \in BOOLEAN
  /\ checked \in BOOLEAN
  /\ msgText \in {"before", "during", "error", "after"}
  /\ wstate \in {"loading", "running"}
  /\ Len(cycles) <= MaxCycles

\* ---- helpers of the properties ------------------------------------------
\* the sendWork call s was rejected in this step
SubmissionFails(s) == subs[s].state = "pending" /\ subs'[s].state = "fail"

\* the fetchPoWConfig call of cycle c was rejected in this step
ConfigFetchFails(c) == cycles[c].fetch = "pending" /\ cycles'[c].fetch = "fail"

\* the calls of sendToParent made for the sendWork call s
RelaysOf(s) == {i \in DOMAIN relayed : relayed[i].sub = s}

\* the result messages the worker posted for the SolveRequest cfg
ResultsFor(cfg) == {i \in DOMAIN wEmitted :
                      wEmitted[i].type = "result" /\ wEmitted[i].req = cfg.string}

\* ---- C1 -----------------------------------------------------------------
\* C1: a call of solveCaptchaRunner made while LOCK is true is a no-op: no
\* step taken from a state where LOCK is true issues a config fetch (starts
\* a cycle).
C1_GuardedTriggerIsNoOp == [][LOCK => Len(cycles') = Len(cycles)]_vars

\* ---- C2 -----------------------------------------------------------------
\* C2: a Challenge is submitted at most once: no two Proofs passed to
\* sendWork carry the same challenge string.
C2_ChallengeSubmittedAtMostOnce ==
  \A i, j \in DOMAIN subs :
    i # j => subs[i].proof.string # subs[j].proof.string

\* ---- C3 -----------------------------------------------------------------
\* C3: sendToParent is called exactly once for each submission that
\* succeeded, with the token sendWork returned for it, and never for a
\* submission that has not succeeded (so never before the worker's result
\* was received, which is what creates the submission).
C3_TokenRelayedOncePerSuccess ==
  /\ \A i \in DOMAIN relayed :
       /\ relayed[i].sub \in DOMAIN subs
       /\ subs[relayed[i].sub].state = "ok"
       /\ relayed[i].token = subs[relayed[i].sub].token
       /\ \E j \in DOMAIN wEmitted : wEmitted[j].req = subs[relayed[i].sub].req
  /\ \A s \in DOMAIN subs :
       Cardinality(RelaysOf(s)) = IF subs[s].state = "ok" THEN 1 ELSE 0
  /\ \A s, t \in DOMAIN subs : s # t => subs[s].req # subs[t].req

\* a submission has succeeded and its token has been relayed
C3_Witness ==
  \E s \in DOMAIN subs : subs[s].state = "ok" /\ RelaysOf(s) # {}

\* ---- C4 -----------------------------------------------------------------
\* C4: when sendWork fails, the error indicator is shown and LOCK becomes
\* false.
C4_SubmitFailureReleasesGuard ==
  [][\A s \in DOMAIN subs :
       SubmissionFails(s) => (LOCK' = FALSE /\ msgText' = "error")]_vars

\* ---- C5 -----------------------------------------------------------------
\* C5: when fetchPoWConfig fails, the error indicator is shown, LOCK is set
\* to false and nothing is posted to the worker; no challenge, submission or
\* relay ever comes from a cycle whose fetch failed.
C5_NothingFromFailedCycle ==
  \A c \in DOMAIN cycles :
    cycles[c].fetch = "fail" =>
      /\ \A i \in DOMAIN dispatched : dispatched[i].string # c
      /\ \A i \in DOMAIN wReceived : wReceived[i].string # c
      /\ \A s \in DOMAIN subs : subs[s].req # c

C5_FailStep ==
  \A c \in DOMAIN cycles :
    ConfigFetchFails(c) =>
      /\ LOCK' = FALSE
      /\ msgText' = "error"
      /\ toWorker' = toWorker
      /\ dispatched' = dispatched

C5_ConfigFetchFailure == []C5_NothingFromFailedCycle /\ [][C5_FailStep]_vars

\* a config fetch has failed, leaving the guard released and the error shown
C5_Witness ==
  \E c \in DOMAIN cycles :
    cycles[c].fetch = "fail" /\ LOCK = FALSE /\ msgText = "error"

\* ---- C6 -----------------------------------------------------------------
\* C6: when the submission of a Proof fails, that step relays no token and
\* leaves the checkbox and the status text as they were, and no relay is
\* ever attributed to a failed submission.
C6_NoRelayFromFailed ==
  \A s \in DOMAIN subs : subs[s].state = "fail" => RelaysOf(s) = {}

C6_FailStep ==
  \A s \in DOMAIN subs :
    SubmissionFails(s) =>
      /\ relayed' = relayed
      /\ checked' = checked
      /\ msgText' = msgText

C6_SubmitFailureRelaysNothing == []C6_NoRelayFromFailed /\ [][C6_FailStep]_vars

\* a submission has failed while the checkbox is still unchecked
C6_Witness ==
  \E s \in DOMAIN subs : subs[s].state = "fail" /\ ~checked /\ relayed = <<>>

\* ---- C7 -----------------------------------------------------------------
\* C7: every Proof passed to sendWork carries the sitekey and the challenge
\* string of the SolveRequest that produced the result, and that result's
\* nonce and digest.
C7_ProofMatchesRequest ==
  \A s \in DOMAIN subs :
    /\ subs[s].proof.key = Sitekey
    /\ subs[s].proof.string = subs[s].req
    /\ subs[s].proof.nonce = subs[s].work.nonce
    /\ subs[s].proof.result = subs[s].work.result

\* ---- C8 -----------------------------------------------------------------
\* C8: the worker posts exactly one result message for every SolveRequest it
\* has handled whose search finished, none for one whose search threw, and
\* every message it posts from onmessage is a result (or a progress report)
\* answering a received SolveRequest.
C8_OneResultPerRequest ==
  /\ \A i \in DOMAIN wEmitted :
       /\ wEmitted[i].type \in {"result", "progress"}
       /\ \E j \in DOMAIN wReceived : wReceived[j].string = wEmitted[i].req
  /\ \A j \in DOMAIN wReceived :
       Cardinality(ResultsFor(wReceived[j])) =
         IF proveThrows(wReceived[j]) THEN 0 ELSE 1
  /\ Cardinality({i \in DOMAIN wEmitted : wEmitted[i].type = "result"})
       <= Len(wReceived)

\* the worker has handled two SolveRequests and answered both
C8_Witness ==
  /\ Len(wReceived) = 2
  /\ Cardinality({i \in DOMAIN wEmitted : wEmitted[i].type = "result"}) = 2

C10_NoFetchBeforeInit ==
  /\ (cycles # <<>> \/ dispatched # <<>>) => initSeen
  /\ Cardinality({c \in DOMAIN cycles : cycles[c].src = "init"})
       = IF initSeen THEN 1 ELSE 0

\* ---- C11 ----------------------------------------------------------------
\* C11: when the search for the in-flight SolveRequest failed in the worker,
\* the Orchestrator ends in Error: once the only cycle's request has failed
\* and no worker message is left to handle, the error indicator is shown and
\* LOCK is false.
C11_WorkerErrorReleasesGuard ==
  ( /\ Len(cycles) = 1
    /\ Len(wReceived) = 1
    /\ proveThrows(wReceived[1])
    /\ toMain = <<>> )
  => (LOCK = FALSE /\ msgText = "error")

\* ---- C12 ----------------------------------------------------------------
\* C12: for every SolveRequest whose handling failed inside the worker, the
\* worker has posted an error message and no result message.
C12_WorkerReportsError ==
  \A j \in DOMAIN wReceived :
    proveThrows(wReceived[j]) =>
      /\ \E i \in DOMAIN wEmitted :
           wEmitted[i].type = "error" /\ wEmitted[i].req = wReceived[j].string
      /\ ResultsFor(wReceived[j]) = {}

\* ---- C13 ----------------------------------------------------------------
\* this step is worker.onmessage handling the head of toMain
HandlesMessage == toMain # <<>> /\ observed' = Append(observed, Head(toMain))

\* C13: handling a worker message whose type is neither "init" nor "result"
\* changes nothing of the Orchestrator: LOCK, config, the indicators, and
\* the fetches, dispatches, submissions and relays made so far.
C13_OtherMessagesAreNoOps ==
  [][(HandlesMessage /\ Head(toMain).type \notin {"init", "result"}) =>
       UNCHANGED <<LOCK, config, msgText, checked, cycles, dispatched,
                   toWorker, subs, relayed, initSeen>>]_vars

\* a progress message and the ready message have been handled
C13_Witness ==
  /\ \E i \in DOMAIN observed : observed[i].type = "progress"
  /\ \E i \in DOMAIN observed : observed[i].type = "ready"

\* ---- C14 ----------------------------------------------------------------
\* the config fetches that succeeded
FetchesOk == {c \in DOMAIN cycles : cycles[c].fetch = "ok"}

\* the result messages worker.onmessage has received
ResultsObserved == {i \in DOMAIN observed : observed[i].type = "result"}

\* the submissions that succeeded
SubsOk == {s \in DOMAIN subs : subs[s].state = "ok"}

\* C14: the challenges sent to the worker are at most the successful config
\* fetches, the submissions at most the worker results received, and the
\* token relays at most the successful submissions.
C14_StepsInOrder ==
  /\ Len(dispatched) <= Cardinality(FetchesOk)
  /\ Len(subs) <= Cardinality(ResultsObserved)
  /\ Len(relayed) <= Cardinality(SubsOk)

\* a cycle has gone through all five steps
C14_Witness ==
  /\ FetchesOk # {}
  /\ dispatched # <<>>
  /\ ResultsObserved # {}
  /\ SubsOk # {}
  /\ relayed # <<>>

\* ---- C15 ----------------------------------------------------------------
\* every message the worker has posted so far, in the order it posted them:
\* those worker.onmessage has handled, then those still in the channel
AllSent == observed \o toMain

\* the messages of type t among those the worker has posted
SentOfType(t) == {i \in DOMAIN AllSent : AllSent[i].type = t}

\* C15: the worker posts `ready` (and `init`) exactly once, when its script
\* starts and before it handles any challenge, and never from onmessage; the
\* Orchestrator handles at most one handshake.
C15_ReadyOnceAtStartup ==
  /\ Cardinality(SentOfType("ready")) = IF wstate = "running" THEN 1 ELSE 0
  /\ Cardinality(SentOfType("init")) = IF wstate = "running" THEN 1 ELSE 0
  /\ wstate = "running" => (AllSent[1].type = "ready" /\ AllSent[2].type = "init")
  /\ wReceived # <<>> => wstate = "running"
  /\ \A i \in DOMAIN wEmitted : wEmitted[i].type \notin {"ready", "init"}
  /\ Cardinality({i \in DOMAIN observed : observed[i].type = "init"}) <= 1

\* the handshake has been handled and the worker has since handled a challenge
C15_Witness ==
  /\ initSeen
  /\ \E i \in DOMAIN observed : observed[i].type = "ready"
  /\ wReceived # <<>>

InFlight ==
  \/ \E c \in DOMAIN cycles : cycles[c].fetch = "pending"
  \/ toWorker # <<>>
  \/ \E i \in DOMAIN toMain : toMain[i].type = "result"
  \/ \E s \in DOMAIN subs : subs[s].state = "pending"

\* C17: LOCK is true exactly when a solve cycle is in flight.
C17_LockIffInFlight == LOCK <=> InFlight

\* ---- C18 ----------------------------------------------------------------
\* C18: if the checkbox is checked, a token has been relayed by a successful
\* submission; the checkbox changes only in the step in which a submission
\* succeeds and its token is relayed.
C18_CheckedAfterRelay ==
  checked => \E i \in DOMAIN relayed : subs[relayed[i].sub].state = "ok"

C18_CheckStep ==
  checked' # checked =>
    /\ \E s \in DOMAIN subs : subs[s].state = "pending" /\ subs'[s].state = "ok"
    /\ Len(relayed') = Len(relayed) + 1

C18_CheckboxOnlyAfterRelay == []C18_CheckedAfterRelay /\ [][C18_CheckStep]_vars

\* the checkbox is checked, and another submission has failed
C18_Witness ==
  /\ checked
  /\ \E s \in DOMAIN subs : subs[s].state = "fail"
====
